---------------------------- MODULE Spec2Model ----------------------------
(***************************************************************************)
(* sslchains: pairing of private keys, certificate requests and            *)
(* certificates found in a list of files, and the signer lineage of every  *)
(* certificate (src/src/chain.rs, src/src/compare.rs), together with the   *)
(* program around it (src/src/main.rs, src/src/arguments.rs,               *)
(* src/src/display.rs).                                                    *)
(*                                                                         *)
(* A path is modelled by its position in the path list, and `files` holds  *)
(* what lies behind each position.  The content of a file is the outcome   *)
(* of reading it and of the three PEM parses the program tries on it.      *)
(* A public key is [alg, n, e]; a certificate is [key, signer], the public *)
(* key it carries and the public half of the key that signed it.           *)
(***************************************************************************)
EXTENDS Integers, Sequences, FiniteSets, TLC

VARIABLES
    files,      \* the file behind each entry of the path list
    chains,     \* build's `chains` vector
    phase,      \* how far the program has come
    args,       \* what each command line argument names in the file system
    cwd,        \* what "." names
    options,    \* options::Options
    exit_code,  \* the status the process exited with, if it has
    stdout,     \* what display (or help) printed
    stderr,     \* the message printed to standard error, if any
    comparison, \* the keys handed to compare::private_to_public, and its result
    previous,   \* the path list and the result of an earlier call of build
    display_name \* what display::get_display_name returned, if it was called

program == <<args, cwd, options, exit_code, stdout, stderr>>

\* What only the calls of single functions use.
aside == <<comparison, previous, display_name>>

vars == <<files, chains, phase, program, aside>>

(***************************************************************************)
(* Bounds                                                                  *)
(***************************************************************************)
MaxFiles == 4

NumKeys == 3

MaxArgs == 2

\* The longest stack of subject alternative names.
MaxNames == 2

\* arguments.rs: the file count limit.
FileLimit == 10000

(***************************************************************************)
(* Option and Result: None / Err(_) is the empty sequence, Some(x) / Ok(x)  *)
(* the sequence holding x.                                                 *)
(***************************************************************************)
None == <<>>

Some(x) == <<x>>

is_ok(r) == Len(r) = 1

is_err(r) == Len(r) = 0

unwrap(r) == r[1]

(***************************************************************************)
(* Keys, certificates and file contents                                    *)
(***************************************************************************)
RsaModuli == 1..NumKeys

Exponents == {3, 5}

RsaKey(n, e) == [n |-> n, e |-> e]

RsaPKey(n) == [alg |-> "rsa", n |-> n, e |-> 5]

EcPKey == [alg |-> "ec", n |-> 0, e |-> 0]

RsaPKeys == {RsaPKey(n) : n \in RsaModuli}

AllPKeys == RsaPKeys \cup {EcPKey}

X509(key, signer) == [key |-> key, signer |-> signer]

Unreadable == [readable |-> FALSE, key |-> None, req |-> None, cert |-> None]

Garbage == [readable |-> TRUE, key |-> None, req |-> None, cert |-> None]

KeyFile(n) == [Garbage EXCEPT !.key = Some(RsaKey(n, 5))]

RequestFile(pkey) == [Garbage EXCEPT !.req = Some(pkey)]

CertFile(key, signer) == [Garbage EXCEPT !.cert = Some(X509(key, signer))]

\* Files holding one RSA artifact, or none.
RsaFiles ==
    {Unreadable, Garbage}
        \cup {KeyFile(n) : n \in RsaModuli}
        \cup {RequestFile(k) : k \in RsaPKeys}
        \cup {CertFile(k, s) : k \in RsaPKeys, s \in RsaPKeys}

\* Files holding a request or a certificate that involves a non-RSA key.
OtherAlgorithmFiles ==
    ({RequestFile(EcPKey)}
        \cup {CertFile(k, s) : k \in AllPKeys, s \in AllPKeys}) \ RsaFiles

(***************************************************************************)
(* The moduli a file list mentions, in reading order.  RSA moduli are      *)
(* interchangeable, so file lists are enumerated up to renaming: the       *)
(* moduli appear for the first time in the order 1, 2, 3, ...              *)
(***************************************************************************)
PKeyMention(k) == IF k.alg = "rsa" THEN <<k.n>> ELSE <<>>

FileMentions(f) ==
    (IF is_ok(f.key) THEN <<unwrap(f.key).n>> ELSE <<>>)
        \o (IF is_ok(f.req) THEN PKeyMention(unwrap(f.req)) ELSE <<>>)
        \o (IF is_ok(f.cert)
            THEN PKeyMention(unwrap(f.cert).key) \o PKeyMention(unwrap(f.cert).signer)
            ELSE <<>>)

RECURSIVE Mentions(_)
Mentions(fs) ==
    IF fs = <<>> THEN <<>> ELSE FileMentions(Head(fs)) \o Mentions(Tail(fs))

RECURSIVE InOrderFrom(_, _, _)
InOrderFrom(ms, i, seen) ==
    IF i > Len(ms) THEN TRUE
    ELSE /\ ms[i] <= seen + 1
         /\ InOrderFrom(ms, i + 1, IF ms[i] > seen THEN ms[i] ELSE seen)

Canonical(fs) == InOrderFrom(Mentions(fs), 1, 0)

(***************************************************************************)
(* chain.rs: the records                                                   *)
(***************************************************************************)
Chain_new == [name |-> None, key |-> None, request |-> None, certificates |-> <<>>]

PrivateKeyFile_new(path, rsa) == [path |-> path, rsa |-> rsa]

CertificateRequestFile_new(path, request) == [path |-> path, request |-> request]

CertificateFile_new(path, certificate) ==
    [path |-> path, certificate |-> certificate,
     signing_certificate |-> None, self_signed |-> FALSE]

\* PKey::rsa(): Err for a key of another algorithm.
PKey_rsa(pkey) == IF pkey.alg = "rsa" THEN Some(RsaKey(pkey.n, pkey.e)) ELSE None

CertificateRequestFile_to_rsa(request) == PKey_rsa(request.request)

CertificateFile_to_rsa(certificate) == PKey_rsa(certificate.certificate.key)

get_file_contents(path) ==
    IF files[path].readable THEN Some(files[path]) ELSE None

str_to_private_key(contents) == contents.key

str_to_x509req(contents) == contents.req

str_to_x509(contents) == contents.cert

(***************************************************************************)
(* compare.rs                                                              *)
(***************************************************************************)
\* A comparison of the whole key instead of the modulus.
private_to_public_whole_key(rsa_private, rsa_public) ==
    IF rsa_private # rsa_public THEN None ELSE Some("unit")

private_to_public(rsa_private, rsa_public) ==
    IF rsa_private.n # rsa_public.n THEN None ELSE Some("unit")

\* X509::verify: Err when the key is not of the signature's algorithm,
\* otherwise whether the signature was made by the key.
X509_verify(certificate, pkey) ==
    IF pkey.alg # certificate.signer.alg THEN None
    ELSE Some(pkey = certificate.signer)

\* The comparison with the negation of compare.rs:41 left out.
certificate_to_signing_certificate_inverted(certificate, signing_certificate) ==
    LET signing_key == signing_certificate.key
        verified == X509_verify(certificate, signing_key)
    IN  IF is_err(verified) THEN "panic"
        ELSE IF unwrap(verified) THEN "Err"
        ELSE "Ok"

\* "panic" stands for the unwrap of an Err.
certificate_to_signing_certificate(certificate, signing_certificate) ==
    LET signing_key == signing_certificate.key
        verified == X509_verify(certificate, signing_key)
    IN  IF is_err(verified) THEN "panic"
        ELSE IF ~unwrap(verified) THEN "Err"
        ELSE "Ok"

\* The signature bytes: those of two certificates are equal exactly when
\* the certificates are.
signature(certificate) == <<certificate.key, certificate.signer>>

(***************************************************************************)
(* chain.rs: build                                                         *)
(***************************************************************************)
\* The loop with a break instead of the continue of chain.rs:286 and 292.
RECURSIVE find_certificates_from_stopping(_, _)
find_certificates_from_stopping(paths, i) ==
    IF i > Len(paths) THEN <<>>
    ELSE LET contents == get_file_contents(paths[i])
         IN  IF is_err(contents) THEN <<>>
             ELSE LET certificate == str_to_x509(unwrap(contents))
                  IN  IF is_err(certificate) THEN <<>>
                      ELSE <<CertificateFile_new(paths[i], unwrap(certificate))>>
                               \o find_certificates_from_stopping(paths, i + 1)

RECURSIVE find_certificates_from(_, _)
find_certificates_from(paths, i) ==
    IF i > Len(paths) THEN <<>>
    ELSE LET contents == get_file_contents(paths[i])
             rest == find_certificates_from(paths, i + 1)
         IN  IF is_err(contents) THEN rest
             ELSE LET certificate == str_to_x509(unwrap(contents))
                  IN  IF is_err(certificate) THEN rest
                      ELSE <<CertificateFile_new(paths[i], unwrap(certificate))>> \o rest

find_certificates(paths) == find_certificates_from(paths, 1)

new_chain(path, rsa) == [Chain_new EXCEPT !.key = Some(PrivateKeyFile_new(path, rsa))]

\* The loop with a key that an earlier chain already holds left out.
RECURSIVE initialize_from_deduplicating(_, _, _)
initialize_from_deduplicating(cs, paths, i) ==
    IF i > Len(paths) THEN cs
    ELSE LET contents == get_file_contents(paths[i])
         IN  IF is_err(contents) THEN initialize_from_deduplicating(cs, paths, i + 1)
             ELSE LET key == str_to_private_key(unwrap(contents))
                  IN  IF /\ is_ok(key)
                         /\ \A c \in 1..Len(cs) : unwrap(cs[c].key).rsa # unwrap(key)
                      THEN initialize_from_deduplicating(
                               Append(cs, new_chain(paths[i], unwrap(key))), paths, i + 1)
                      ELSE initialize_from_deduplicating(cs, paths, i + 1)

RECURSIVE initialize_from(_, _, _)
initialize_from(cs, paths, i) ==
    IF i > Len(paths) THEN cs
    ELSE LET contents == get_file_contents(paths[i])
         IN  IF is_err(contents) THEN initialize_from(cs, paths, i + 1)
             ELSE LET key == str_to_private_key(unwrap(contents))
                  IN  IF is_ok(key)
                      THEN initialize_from(Append(cs, new_chain(paths[i], unwrap(key))),
                                           paths, i + 1)
                      ELSE initialize_from(cs, paths, i + 1)

initialize(cs, paths) == initialize_from(cs, paths, 1)

set_request(chain, request) == [chain EXCEPT !.request = Some(request)]

\* The inner loop without the break of chain.rs:204: a later match replaces
\* an earlier one.
RECURSIVE scan_requests_without_break(_, _, _)
scan_requests_without_break(chain, paths, i) ==
    IF i > Len(paths) THEN [status |-> "ok", chain |-> chain]
    ELSE LET contents == get_file_contents(paths[i])
         IN  IF is_err(contents) THEN scan_requests_without_break(chain, paths, i + 1)
             ELSE LET parsed == str_to_x509req(unwrap(contents))
                  IN  IF is_err(parsed) THEN scan_requests_without_break(chain, paths, i + 1)
                      ELSE LET request == CertificateRequestFile_new(paths[i], unwrap(parsed))
                               public == CertificateRequestFile_to_rsa(request)
                           IN  IF is_err(chain.key)
                               THEN scan_requests_without_break(chain, paths, i + 1)
                               ELSE IF is_err(public)
                               THEN [status |-> "panic", chain |-> chain]
                               ELSE IF is_ok(private_to_public(unwrap(chain.key).rsa,
                                                               unwrap(public)))
                               THEN scan_requests_without_break(
                                        set_request(chain, request), paths, i + 1)
                               ELSE scan_requests_without_break(chain, paths, i + 1)

\* The inner loop of attach_certificate_signing_requests, from path i on.
RECURSIVE scan_requests(_, _, _)
scan_requests(chain, paths, i) ==
    IF i > Len(paths) THEN [status |-> "ok", chain |-> chain]
    ELSE LET contents == get_file_contents(paths[i])
         IN  IF is_err(contents) THEN scan_requests(chain, paths, i + 1)
             ELSE LET parsed == str_to_x509req(unwrap(contents))
                  IN  IF is_err(parsed) THEN scan_requests(chain, paths, i + 1)
                      ELSE LET request == CertificateRequestFile_new(paths[i], unwrap(parsed))
                               public == CertificateRequestFile_to_rsa(request)
                           IN  IF is_err(chain.key) THEN scan_requests(chain, paths, i + 1)
                               ELSE IF is_err(public)
                               THEN [status |-> "panic", chain |-> chain]
                               ELSE IF is_ok(private_to_public(unwrap(chain.key).rsa,
                                                               unwrap(public)))
                               THEN [status |-> "ok", chain |-> set_request(chain, request)]
                               ELSE scan_requests(chain, paths, i + 1)

RECURSIVE attach_certificate_signing_requests_from(_, _, _)
attach_certificate_signing_requests_from(cs, paths, c) ==
    IF c > Len(cs) THEN [status |-> "ok", chains |-> cs]
    ELSE LET r == scan_requests(cs[c], paths, 1)
         IN  IF r.status # "ok" THEN [status |-> r.status, chains |-> cs]
             ELSE attach_certificate_signing_requests_from(
                      [cs EXCEPT ![c] = r.chain], paths, c + 1)

attach_certificate_signing_requests(cs, paths) ==
    attach_certificate_signing_requests_from(cs, paths, 1)

push_certificate(chain, certificate) ==
    [chain EXCEPT !.certificates = Append(@, certificate)]

\* The inner loop with a break after the push of chain.rs:224: only the first
\* match is attached.
RECURSIVE scan_certificates_first_only(_, _, _)
scan_certificates_first_only(chain, certificates, i) ==
    IF i > Len(certificates) THEN [status |-> "ok", chain |-> chain]
    ELSE IF is_err(chain.key) THEN scan_certificates_first_only(chain, certificates, i + 1)
    ELSE LET public == CertificateFile_to_rsa(certificates[i])
         IN  IF is_err(public) THEN [status |-> "panic", chain |-> chain]
             ELSE IF is_ok(private_to_public(unwrap(chain.key).rsa, unwrap(public)))
             THEN [status |-> "ok", chain |-> push_certificate(chain, certificates[i])]
             ELSE scan_certificates_first_only(chain, certificates, i + 1)

\* The inner loop of attach_certificates, from certificate i on.
RECURSIVE scan_certificates(_, _, _)
scan_certificates(chain, certificates, i) ==
    IF i > Len(certificates) THEN [status |-> "ok", chain |-> chain]
    ELSE IF is_err(chain.key) THEN scan_certificates(chain, certificates, i + 1)
    ELSE LET public == CertificateFile_to_rsa(certificates[i])
         IN  IF is_err(public) THEN [status |-> "panic", chain |-> chain]
             ELSE IF is_ok(private_to_public(unwrap(chain.key).rsa, unwrap(public)))
             THEN scan_certificates(push_certificate(chain, certificates[i]),
                                    certificates, i + 1)
             ELSE scan_certificates(chain, certificates, i + 1)

RECURSIVE attach_certificates_from(_, _, _)
attach_certificates_from(cs, paths, c) ==
    IF c > Len(cs) THEN [status |-> "ok", chains |-> cs]
    ELSE LET r == scan_certificates(cs[c], find_certificates(paths), 1)
         IN  IF r.status # "ok" THEN [status |-> r.status, chains |-> cs]
             ELSE attach_certificates_from([cs EXCEPT ![c] = r.chain], paths, c + 1)

attach_certificates(cs, paths) == attach_certificates_from(cs, paths, 1)

\* The assignment of chain.rs:261 left out.
mark_self_signed_left_out(certificate) == certificate

mark_self_signed(certificate) == [certificate EXCEPT !.self_signed = TRUE]

set_signing_certificate(certificate, signing_certificate) ==
    [certificate EXCEPT !.signing_certificate = Some(signing_certificate)]

\* A call of attach_signing_certificate_chain nested deeper than the pool is
\* long is on a certificate that an enclosing call is already resolving: the
\* recursion repeats itself and ends only when the stack is exhausted.
stack_exhausted(paths, depth) == depth > Len(paths)

\* attach_signing_certificate_chain, and its loop from candidate i on.  The
\* candidate is cloned into the certificate before the nested call, and the
\* nested call works on the candidate of the local pool.
RECURSIVE attach_signing_certificate_chain(_, _, _)
RECURSIVE scan_signing_certificates(_, _, _, _, _)
scan_signing_certificates(certificate, certificates, paths, i, depth) ==
    IF i > Len(certificates) THEN [status |-> "ok", certificate |-> certificate]
    ELSE LET signing_certificate == certificates[i]
             compared == certificate_to_signing_certificate(
                             certificate.certificate, signing_certificate.certificate)
         IN  IF compared = "panic" THEN [status |-> "panic", certificate |-> certificate]
             ELSE IF compared = "Err"
             THEN scan_signing_certificates(certificate, certificates, paths, i + 1, depth)
             ELSE IF signature(certificate.certificate)
                         = signature(signing_certificate.certificate)
             THEN [status |-> "ok", certificate |-> mark_self_signed(certificate)]
             ELSE LET attached == set_signing_certificate(certificate, signing_certificate)
                      nested == attach_signing_certificate_chain(
                                    signing_certificate, paths, depth + 1)
                  IN  IF nested.status # "ok"
                      THEN [status |-> nested.status, certificate |-> attached]
                      ELSE scan_signing_certificates(attached, certificates, paths,
                                                     i + 1, depth)

attach_signing_certificate_chain(certificate, paths, depth) ==
    IF stack_exhausted(paths, depth)
    THEN [status |-> "overflow", certificate |-> certificate]
    ELSE scan_signing_certificates(certificate, find_certificates(paths), paths, 1, depth)

\* The inner loop of attach_signing_certificates, from certificate i on.
RECURSIVE resolve_certificates(_, _, _)
resolve_certificates(chain, paths, i) ==
    IF i > Len(chain.certificates) THEN [status |-> "ok", chain |-> chain]
    ELSE LET r == attach_signing_certificate_chain(chain.certificates[i], paths, 1)
         IN  IF r.status # "ok" THEN [status |-> r.status, chain |-> chain]
             ELSE resolve_certificates(
                      [chain EXCEPT !.certificates[i] = r.certificate], paths, i + 1)

RECURSIVE attach_signing_certificates_from(_, _, _)
attach_signing_certificates_from(cs, paths, c) ==
    IF c > Len(cs) THEN [status |-> "ok", chains |-> cs]
    ELSE LET r == resolve_certificates(cs[c], paths, 1)
         IN  IF r.status # "ok" THEN [status |-> r.status, chains |-> cs]
             ELSE attach_signing_certificates_from([cs EXCEPT ![c] = r.chain], paths, c + 1)

attach_signing_certificates(cs, paths) == attach_signing_certificates_from(cs, paths, 1)

RECURSIVE signing_certificate_chain_from(_)
signing_certificate_chain_from(certificate) ==
    IF is_err(certificate.signing_certificate) THEN <<>>
    ELSE <<unwrap(certificate.signing_certificate)>>
             \o signing_certificate_chain_from(unwrap(certificate.signing_certificate))

signing_certificate_chain(certificate) ==
    IF certificate.self_signed THEN <<>> ELSE signing_certificate_chain_from(certificate)

(***************************************************************************)
(* arguments.rs: what a command line argument names is an entry of the     *)
(* file system: a regular file, a directory with its entries, something    *)
(* that is neither (a socket, a symbolic link that is not followed), or a  *)
(* path the walk reports an error for (it does not exist, or cannot be     *)
(* read).  `hidden` tells whether the file name of the entry starts with   *)
(* "." and is neither "." nor "..".                                        *)
(***************************************************************************)
WalkError == [kind |-> "error", hidden |-> FALSE, content |-> Unreadable, entries |-> <<>>]

FileEntry(f) == [kind |-> "file", hidden |-> FALSE, content |-> f, entries |-> <<>>]

DirEntry(es) == [kind |-> "dir", hidden |-> FALSE, content |-> Unreadable, entries |-> es]

OtherEntry == [kind |-> "other", hidden |-> FALSE, content |-> Unreadable, entries |-> <<>>]

Hidden(entry) == [entry EXCEPT !.hidden = TRUE]

\* An is_hidden that finds no entry hidden.
is_hidden_never(entry) == FALSE

is_hidden(entry) == entry.hidden

\* arguments.rs: the depth of a recursive walk.
RecursiveDepth == 100

max_depth(opts) == IF opts.recursive THEN RecursiveDepth ELSE 1

\* WalkDir::new(arg).max_depth(..).into_iter().filter_entry(..): the entry
\* itself, then, down to max_depth, the entries of a directory, each followed
\* by what is below it.  An entry the filter rejects is not yielded and not
\* descended into; a path that cannot be walked is yielded as an error.
\* The entries lo..hi of a directory are walked in order; the walk of a long
\* directory is put together from the walks of its two halves.
RECURSIVE walk_from(_, _, _)
RECURSIVE walk_entries(_, _, _, _, _)
walk_entries(entries, lo, hi, depth, opts) ==
    IF lo > hi THEN <<>>
    ELSE IF lo = hi THEN walk_from(entries[lo], depth, opts)
    ELSE LET mid == (lo + hi) \div 2
         IN  walk_entries(entries, lo, mid, depth, opts)
                 \o walk_entries(entries, mid + 1, hi, depth, opts)

walk_from(entry, depth, opts) ==
    IF entry.kind = "error" THEN <<entry>>
    ELSE IF ~(opts.include_hidden_files \/ ~is_hidden(entry)) THEN <<>>
    ELSE IF entry.kind = "dir" /\ depth < max_depth(opts)
    THEN <<entry>> \o walk_entries(entry.entries, 1, Len(entry.entries), depth + 1, opts)
    ELSE <<entry>>

walk(arg, opts) == walk_from(arg, 0, opts)

\* .filter_map(|e| e.ok()): "Skip inaccessible files."
filter_map_ok(entries) == SelectSeq(entries, LAMBDA e : e.kind # "error")

\* The limit reached at FileLimit paths, not above it.
over_limit_at_limit(len, opts) == len >= FileLimit /\ ~opts.disable_file_limit

\* expanded.len() > 10_000 && !options.disable_file_limit
over_limit(len, opts) == len > FileLimit /\ ~opts.disable_file_limit

\* The body of the loop for one entry, `len` paths being in `expanded`: the
\* path pushed, if any, and whether the process exits.
expand_entry(len, entry, opts) ==
    LET pushed == IF entry.kind = "file" THEN <<entry.content>> ELSE <<>>
    IN  [status |-> IF over_limit(len + Len(pushed), opts) THEN "exit" ELSE "Ok",
         pushed |-> pushed]

\* The loop over the entries lo..hi of one argument, in order, `len` paths
\* being in `expanded` before entry lo: what it pushes, and whether it runs
\* to its end.  A long run is put together from its two halves, the second
\* being run only when the first came to its end.
RECURSIVE expand_entries(_, _, _, _, _)
expand_entries(len, entries, lo, hi, opts) ==
    IF lo > hi THEN [status |-> "Ok", pushed |-> <<>>]
    ELSE IF lo = hi THEN expand_entry(len, entries[lo], opts)
    ELSE LET mid == (lo + hi) \div 2
             first == expand_entries(len, entries, lo, mid, opts)
             second == expand_entries(len + Len(first.pushed), entries, mid + 1, hi, opts)
         IN  IF first.status # "Ok" THEN first
             ELSE [status |-> second.status, pushed |-> first.pushed \o second.pushed]

RECURSIVE expand_from(_, _, _, _)
expand_from(expanded, arguments, a, opts) ==
    IF a > Len(arguments) THEN [status |-> "Ok", expanded |-> expanded]
    ELSE LET entries == filter_map_ok(walk(arguments[a], opts))
             r == expand_entries(Len(expanded), entries, 1, Len(entries), opts)
         IN  IF r.status # "Ok"
             THEN [status |-> r.status, expanded |-> expanded \o r.pushed]
             ELSE expand_from(expanded \o r.pushed, arguments, a + 1, opts)

expand(arguments, opts) == expand_from(<<>>, arguments, 1, opts)

\* A process that reports a named path the walk fails on, as an io::Error.
process_reporting(opts) ==
    IF \E a \in 1..Len(args) : args[a].kind = "error"
    THEN [status |-> "Err", expanded |-> <<>>]
    ELSE expand(IF Len(args) = 0 THEN <<cwd>> ELSE args, opts)

\* process: no argument stands for ".".
process(opts) == expand(IF Len(args) = 0 THEN <<cwd>> ELSE args, opts)

(***************************************************************************)
(* display.rs.  What is printed for a chain is kept as a record: the path  *)
(* of its key, of its request if any, and one entry per certificate line   *)
(* with the paths of the signing certificates printed under it.            *)
(***************************************************************************)
RECURSIVE path_of_each(_)
path_of_each(certificates) ==
    IF certificates = <<>> THEN <<>>
    ELSE <<Head(certificates).path>> \o path_of_each(Tail(certificates))

\* The loop over chain.certificates, from certificate i on: it ends at the
\* first self-signed certificate.
RECURSIVE print_certificates(_, _)
print_certificates(certificates, i) ==
    IF i > Len(certificates) THEN <<>>
    ELSE LET certificate == certificates[i]
         IN  IF certificate.self_signed
             THEN <<[path |-> certificate.path, self_signed |-> TRUE, signing |-> <<>>]>>
             ELSE <<[path |-> certificate.path, self_signed |-> FALSE,
                     signing |-> path_of_each(signing_certificate_chain(certificate))]>>
                      \o print_certificates(certificates, i + 1)

print_chain(chain) ==
    [key |-> unwrap(chain.key).path,
     request |-> IF is_ok(chain.request) THEN Some(unwrap(chain.request).path) ELSE None,
     certificates |-> print_certificates(chain.certificates, 1)]

RECURSIVE print_chains(_)
print_chains(cs) ==
    IF cs = <<>> THEN <<>> ELSE <<print_chain(Head(cs))>> \o print_chains(Tail(cs))

NothingPrinted == [usage |-> FALSE, header |-> FALSE, chains |-> <<>>]

default(cs) == [usage |-> FALSE, header |-> FALSE, chains |-> print_chains(cs)]

oneline(cs, opts) ==
    [usage |-> FALSE, header |-> ~opts.suppress_oneline_header, chains |-> print_chains(cs)]

(***************************************************************************)
(* display.rs: the display name.  A name is the sequence of its labels, the *)
(* parts between the dots.  Of a certificate or a request the functions     *)
(* read the subject alternative names (None without the extension, else a   *)
(* stack of general names) and the common name entries of the subject, the  *)
(* data of an entry being its lines.                                        *)
(***************************************************************************)
\* GeneralNameRef::dnsname: None for a general name of another kind.
dnsname(general_name) ==
    IF general_name.kind = "dns" THEN Some(general_name.value) ELSE None

\* str::starts_with("www.")
starts_with_www(name) == Len(name) >= 2 /\ name[1] = "www"

\* entries_by_nid(Nid::COMMONNAME).last(), and str::lines().last()
last(entries) == IF entries = <<>> THEN None ELSE Some(entries[Len(entries)])

CertificateRequestFile_common_name(request) == last(request.request.subject_name)

CertificateFile_common_name(certificate) == last(certificate.certificate.subject_name)

\* The loop "Prefer non-www values", from general name i on.
RECURSIVE first_non_www(_, _)
first_non_www(general_name_stack, i) ==
    IF i > Len(general_name_stack) THEN None
    ELSE LET name == dnsname(general_name_stack[i])
         IN  IF is_ok(name) /\ ~starts_with_www(unwrap(name)) THEN name
             ELSE first_non_www(general_name_stack, i + 1)

get_display_name_from_request(request) ==
    LET common_name == CertificateRequestFile_common_name(request)
    IN  IF is_ok(common_name) THEN last(unwrap(common_name)) ELSE None

get_display_name_from_certificate(certificate) ==
    LET subject_alt_names == certificate.certificate.subject_alt_names
        general_name_stack == unwrap(subject_alt_names)
        common_name == CertificateFile_common_name(certificate)
        from_common_name ==
            IF is_ok(common_name) THEN last(unwrap(common_name)) ELSE None
    IN  IF is_ok(subject_alt_names) /\ general_name_stack # <<>>
        THEN IF is_ok(first_non_www(general_name_stack, 1))
             THEN first_non_www(general_name_stack, 1)
             ELSE IF is_ok(dnsname(general_name_stack[1]))
             THEN dnsname(general_name_stack[1])
             ELSE from_common_name
        ELSE from_common_name

unknown == <<"(unknown)">>

\* The request asked before the first certificate.
get_display_name_request_first(chain) ==
    LET from_certificate ==
            IF chain.certificates # <<>>
            THEN get_display_name_from_certificate(chain.certificates[1])
            ELSE None
        from_request ==
            IF is_ok(chain.request)
            THEN get_display_name_from_request(unwrap(chain.request))
            ELSE None
    IN  IF is_ok(from_request) THEN unwrap(from_request)
        ELSE IF is_ok(from_certificate) THEN unwrap(from_certificate)
        ELSE unknown

get_display_name(chain) ==
    LET from_certificate ==
            IF chain.certificates # <<>>
            THEN get_display_name_from_certificate(chain.certificates[1])
            ELSE None
        from_request ==
            IF is_ok(chain.request)
            THEN get_display_name_from_request(unwrap(chain.request))
            ELSE None
    IN  IF is_ok(from_certificate) THEN unwrap(from_certificate)
        ELSE IF is_ok(from_request) THEN unwrap(from_request)
        ELSE unknown

(***************************************************************************)
(* options.rs                                                              *)
(***************************************************************************)
Options_new ==
    [print_help |-> FALSE, disable_file_limit |-> FALSE, display_mode |-> "Default",
     include_hidden_files |-> FALSE, recursive |-> FALSE,
     suppress_oneline_header |-> FALSE]

\* The option letters the program reads: h, H, l, L, r, U.
process_input(opts, letter) ==
    IF letter = "h" THEN [opts EXCEPT !.print_help = TRUE]
    ELSE IF letter = "H" THEN [opts EXCEPT !.include_hidden_files = TRUE]
    ELSE IF letter = "r" THEN [opts EXCEPT !.recursive = TRUE]
    ELSE IF letter = "l" THEN [opts EXCEPT !.display_mode = "OneLine"]
    ELSE IF letter = "L"
    THEN [opts EXCEPT !.display_mode = "OneLine", !.suppress_oneline_header = TRUE]
    ELSE IF letter = "U" THEN [opts EXCEPT !.disable_file_limit = TRUE]
    ELSE opts

(***************************************************************************)
(* The state machine of build(paths)                                       *)
(***************************************************************************)
\* The path list handed to build: one path per file.
Paths == [i \in 1..Len(files) |-> i]

\* The phase after a step that ended with `status`.
after(status, next) ==
    IF status = "panic" THEN "panicked"
    ELSE IF status = "overflow" THEN "overflow"
    ELSE next

NoComparison == [rsa_private |-> RsaKey(0, 0), holder |-> "none", public |-> EcPKey,
                 result |-> "none"]

\* No earlier call of build.
NoPrevious ==
    [how |-> "none", files |-> <<>>, chains |-> <<>>, phase |-> "none", kept |-> <<>>]

Idle ==
    /\ args = <<>>
    /\ cwd = DirEntry(<<>>)
    /\ options = Options_new
    /\ exit_code = None
    /\ stdout = NothingPrinted
    /\ stderr = None
    /\ previous = NoPrevious
    /\ display_name = None

Init ==
    /\ files = <<>>
    /\ chains = <<>>
    /\ phase = "input"
    /\ Idle
    /\ comparison = NoComparison

\* The caller of build puts one more file of RSA material (or none) on the list.
AddFile ==
    /\ phase = "input"
    /\ Len(files) < MaxFiles
    /\ \E f \in RsaFiles :
          /\ Canonical(Append(files, f))
          /\ files' = Append(files, f)
    /\ UNCHANGED <<chains, phase, program, aside>>

\* The caller of build puts one more file on the list, of any algorithm.
AddFileAnyAlgorithm ==
    /\ phase = "input"
    /\ Len(files) < MaxFiles
    /\ \E f \in RsaFiles \cup OtherAlgorithmFiles :
          /\ Canonical(Append(files, f))
          /\ files' = Append(files, f)
    /\ UNCHANGED <<chains, phase, program, aside>>

\* build on a `chains` vector that is not new (without chain.rs:140).
Initialize_on_old_chains ==
    /\ phase = "input"
    /\ chains' = initialize(chains, Paths)
    /\ phase' = "requests"
    /\ UNCHANGED <<files, program, aside>>

Initialize ==
    /\ phase = "input"
    /\ chains' = initialize(<<>>, Paths)
    /\ phase' = "requests"
    /\ UNCHANGED <<files, program, aside>>

AttachCertificateSigningRequests ==
    /\ phase = "requests"
    /\ LET r == attach_certificate_signing_requests(chains, Paths)
       IN  /\ chains' = r.chains
           /\ phase' = after(r.status, "certificates")
    /\ UNCHANGED <<files, program, aside>>

AttachCertificates ==
    /\ phase = "certificates"
    /\ LET r == attach_certificates(chains, Paths)
       IN  /\ chains' = r.chains
           /\ phase' = after(r.status, "signing")
    /\ UNCHANGED <<files, program, aside>>

AttachSigningCertificates ==
    /\ phase = "signing"
    /\ LET r == attach_signing_certificates(chains, Paths)
       IN  /\ chains' = r.chains
           /\ phase' = after(r.status, "done")
    /\ UNCHANGED <<files, program, aside>>

Build ==
    \/ Initialize
    \/ AttachCertificateSigningRequests
    \/ AttachCertificates
    \/ AttachSigningCertificates

Next == AddFile \/ Build

Spec == Init /\ [][Next]_vars

NextAnyAlgorithm == AddFileAnyAlgorithm \/ Build

SpecAnyAlgorithm == Init /\ [][NextAnyAlgorithm]_vars

(***************************************************************************)
(* build on files that hold more than one PEM block: each of the three      *)
(* parses finds the block of its kind and passes over the others            *)
(***************************************************************************)
\* Files whose content is any combination of a key, a request and a
\* self-signed certificate of one modulus.
CombinedOf(n) ==
    {[readable |-> TRUE, key |-> k, req |-> r, cert |-> c] :
        k \in {None, Some(RsaKey(n, 5))},
        r \in {None, Some(RsaPKey(n))},
        c \in {None, Some(X509(RsaPKey(n), RsaPKey(n)))}}

CombinedFiles == {Unreadable} \cup UNION {CombinedOf(n) : n \in RsaModuli}

\* The caller of build puts one more file on the list, of any combination
\* of parse outcomes.
AddFileCombined ==
    /\ phase = "input"
    /\ Len(files) < MaxFiles
    /\ \E f \in CombinedFiles :
          /\ Canonical(Append(files, f))
          /\ files' = Append(files, f)
    /\ UNCHANGED <<chains, phase, program, aside>>

NextCombined == AddFileCombined \/ Build

SpecCombined == Init /\ [][NextCombined]_vars

(***************************************************************************)
(* build called a second time, on the same path list or on the list        *)
(* without the files that hold nothing                                     *)
(***************************************************************************)
\* A file that cannot be read, or that fails the three parses.
Skipped(f) == ~f.readable \/ (is_err(f.key) /\ is_err(f.req) /\ is_err(f.cert))

\* The paths of the files that are not skipped, in order.
KeptPaths(fs) == SelectSeq([i \in 1..Len(fs) |-> i], LAMBDA i : ~Skipped(fs[i]))

RebuildFiles ==
    {Unreadable, Garbage, KeyFile(1), RequestFile(RsaPKey(1))}
        \cup {CertFile(RsaPKey(k), RsaPKey(s)) : k \in 1..2, s \in 1..2}

\* build has returned, or the process has ended in the stack overflow.
Ended == phase \in {"done", "overflow"}

\* The caller puts one more file on the list of the first call.
AddFileOnce ==
    /\ phase = "input"
    /\ previous = NoPrevious
    /\ Len(files) < MaxFiles
    /\ \E f \in RebuildFiles : files' = Append(files, f)
    /\ UNCHANGED <<chains, phase, program, aside>>

\* build is called again on the same path list; the files have not changed.
BuildAgain ==
    /\ Ended
    /\ previous = NoPrevious
    /\ previous' = [how |-> "again", files |-> files, chains |-> chains,
                    phase |-> phase, kept |-> Paths]
    /\ phase' = "input"
    /\ UNCHANGED <<files, chains, program, comparison, display_name>>

\* build is called again on the path list without the skipped files.
BuildWithoutSkipped ==
    /\ Ended
    /\ previous = NoPrevious
    /\ \E p \in 1..Len(files) : Skipped(files[p])
    /\ previous' = [how |-> "without skipped", files |-> files, chains |-> chains,
                    phase |-> phase, kept |-> KeptPaths(files)]
    /\ files' = SelectSeq(files, LAMBDA f : ~Skipped(f))
    /\ phase' = "input"
    /\ UNCHANGED <<chains, program, comparison, display_name>>

NextRebuild == AddFileOnce \/ Build \/ BuildAgain \/ BuildWithoutSkipped

SpecRebuild == Init /\ [][NextRebuild]_vars

(***************************************************************************)
(* The state machine of main                                               *)
(***************************************************************************)
OptionLetters == {"h", "l", "L", "U"}

OptionsOf(letters) ==
    LET h == IF "h" \in letters THEN process_input(Options_new, "h") ELSE Options_new
        H == IF "H" \in letters THEN process_input(h, "H") ELSE h
        l == IF "l" \in letters THEN process_input(H, "l") ELSE H
        L == IF "L" \in letters THEN process_input(l, "L") ELSE l
        r == IF "r" \in letters THEN process_input(L, "r") ELSE L
    IN  IF "U" \in letters THEN process_input(r, "U") ELSE r

\* The files the program is run on.
MainFiles == {Unreadable, KeyFile(1), CertFile(RsaPKey(1), RsaPKey(1))}

\* What a path on the command line may name.
Named == {WalkError} \cup {FileEntry(f) : f \in MainFiles}

Children == {WalkError, FileEntry(KeyFile(1)), FileEntry(CertFile(RsaPKey(1), RsaPKey(1)))}

Directories ==
    {DirEntry(<<>>)} \cup {DirEntry(<<a>>) : a \in Children}
        \cup {DirEntry(<<a, b>>) : a \in Children, b \in Children}

Arguments == Named \cup Directories

InitMain ==
    /\ files = <<>>
    /\ chains = <<>>
    /\ phase = "start"
    /\ args = <<>>
    /\ cwd \in {DirEntry(<<>>), DirEntry(<<FileEntry(KeyFile(1)), WalkError>>)}
    /\ options \in {OptionsOf(letters) : letters \in SUBSET OptionLetters}
    /\ exit_code = None
    /\ stdout = NothingPrinted
    /\ stderr = None
    /\ comparison = NoComparison
    /\ previous = NoPrevious
    /\ display_name = None

\* One more path on the command line.
AddArgument ==
    /\ phase = "start"
    /\ Len(args) < MaxArgs
    /\ \E a \in Arguments : args' = Append(args, a)
    /\ UNCHANGED <<files, chains, phase, cwd, options, exit_code, stdout, stderr, aside>>

\* main: help() prints the usage and exits with status 3.
Help ==
    /\ phase = "start"
    /\ options.print_help
    /\ stdout' = [stdout EXCEPT !.usage = TRUE]
    /\ exit_code' = Some(3)
    /\ phase' = "exited"
    /\ UNCHANGED <<files, chains, args, cwd, options, stderr, aside>>

\* main: arguments::process; Err ends the process with status 1, and expand
\* itself ends it with status 5 over the file limit.
ProcessArguments ==
    /\ phase = "start"
    /\ ~options.print_help
    /\ LET r == process(options)
       IN  IF r.status = "exit"
           THEN /\ phase' = "exited"
                /\ exit_code' = Some(5)
                /\ stderr' = Some("File count exceeded")
                /\ files' = files
           ELSE IF r.status = "Err"
           THEN /\ phase' = "exited"
                /\ exit_code' = Some(1)
                /\ stderr' = Some("io::Error")
                /\ files' = files
           ELSE /\ phase' = "input"
                /\ files' = r.expanded
                /\ UNCHANGED <<exit_code, stderr>>
    /\ UNCHANGED <<chains, args, cwd, options, stdout, aside>>

\* main: display::oneline or display::default on the chains build returned.
Display ==
    /\ phase = "done"
    /\ stdout' = IF options.display_mode = "OneLine"
                 THEN oneline(chains, options)
                 ELSE default(chains)
    /\ exit_code' = Some(0)
    /\ phase' = "exited"
    /\ UNCHANGED <<files, chains, args, cwd, options, stderr, aside>>

NextMain == AddArgument \/ Help \/ ProcessArguments \/ Build \/ Display

SpecMain == InitMain /\ [][NextMain]_vars

(***************************************************************************)
(* arguments::process on directory trees, with and without -H and -r        *)
(***************************************************************************)
PlainFile == FileEntry(KeyFile(1))

DotFile == Hidden(FileEntry(KeyFile(2)))

DeepDirectory == DirEntry(<<FileEntry(CertFile(RsaPKey(2), RsaPKey(1)))>>)

SubDirectory ==
    DirEntry(<<FileEntry(CertFile(RsaPKey(1), RsaPKey(1))),
               Hidden(FileEntry(CertFile(RsaPKey(1), RsaPKey(2)))),
               DeepDirectory>>)

DotDirectory == Hidden(DirEntry(<<FileEntry(CertFile(RsaPKey(2), RsaPKey(2)))>>))

Tree ==
    DirEntry(<<FileEntry(RequestFile(RsaPKey(1))),
               Hidden(FileEntry(RequestFile(RsaPKey(2)))),
               OtherEntry, WalkError, SubDirectory, DotDirectory>>)

Trees ==
    {PlainFile, DotFile, OtherEntry, WalkError, DirEntry(<<>>),
     SubDirectory, DotDirectory, Tree}

InitExpand ==
    /\ files = <<>>
    /\ chains = <<>>
    /\ phase = "start"
    /\ args = <<>>
    /\ cwd = Tree
    /\ options \in {OptionsOf(letters) : letters \in SUBSET {"H", "r"}}
    /\ exit_code = None
    /\ stdout = NothingPrinted
    /\ stderr = None
    /\ comparison = NoComparison
    /\ previous = NoPrevious
    /\ display_name = None

\* One more path on the command line: a file, a directory tree, or neither.
AddTree ==
    /\ phase = "start"
    /\ Len(args) < MaxArgs
    /\ \E a \in Trees : args' = Append(args, a)
    /\ UNCHANGED <<files, chains, phase, cwd, options, exit_code, stdout, stderr, aside>>

NextExpand == AddTree \/ ProcessArguments

SpecExpand == InitExpand /\ [][NextExpand]_vars

(***************************************************************************)
(* arguments::process on directories of about FileLimit files               *)
(***************************************************************************)
\* A directory of n regular files.
Crowd(n) == DirEntry([i \in 1..n |-> FileEntry(Garbage)])

Crowds ==
    {PlainFile, Crowd(FileLimit - 1), Crowd(FileLimit), Crowd(FileLimit + 1)}

InitLimit ==
    /\ files = <<>>
    /\ chains = <<>>
    /\ phase = "start"
    /\ args = <<>>
    /\ cwd = DirEntry(<<PlainFile>>)
    /\ options \in {OptionsOf(letters) : letters \in SUBSET {"h", "U"}}
    /\ exit_code = None
    /\ stdout = NothingPrinted
    /\ stderr = None
    /\ comparison = NoComparison
    /\ previous = NoPrevious
    /\ display_name = None

\* One more path on the command line: a file, or a directory of many.
AddCrowd ==
    /\ phase = "start"
    /\ Len(args) < MaxArgs
    /\ \E a \in Crowds : args' = Append(args, a)
    /\ UNCHANGED <<files, chains, phase, cwd, options, exit_code, stdout, stderr, aside>>

NextLimit == AddCrowd \/ Help \/ ProcessArguments

SpecLimit == InitLimit /\ [][NextLimit]_vars

(***************************************************************************)
(* compare::private_to_public on a private key and the public key of a     *)
(* request or of a certificate                                             *)
(***************************************************************************)
RsaKeys == {RsaKey(n, e) : n \in RsaModuli, e \in Exponents}

InitCompare ==
    /\ files = <<>>
    /\ chains = <<>>
    /\ phase = "compare"
    /\ Idle
    /\ \E k \in RsaKeys, p \in RsaKeys, h \in {"request", "certificate"} :
          comparison = [rsa_private |-> k, holder |-> h,
                        public |-> [alg |-> "rsa", n |-> p.n, e |-> p.e],
                        result |-> "none"]

\* The public key as the callers get it: to_rsa().unwrap() of the holder.
public_of(c) ==
    IF c.holder = "request"
    THEN unwrap(CertificateRequestFile_to_rsa(CertificateRequestFile_new(1, c.public)))
    ELSE unwrap(CertificateFile_to_rsa(CertificateFile_new(1, X509(c.public, c.public))))

Compare ==
    /\ phase = "compare"
    /\ comparison' =
           [comparison EXCEPT !.result =
                IF is_ok(private_to_public(comparison.rsa_private, public_of(comparison)))
                THEN "Ok" ELSE "Err"]
    /\ phase' = "compared"
    /\ UNCHANGED <<files, chains, program, previous, display_name>>

NextCompare == Compare

SpecCompare == InitCompare /\ [][NextCompare]_vars

(***************************************************************************)
(* display::get_display_name on a chain                                    *)
(***************************************************************************)
GeneralName(kind, value) == [kind |-> kind, value |-> value]

GeneralNames ==
    {GeneralName("dns", <<"san", "example", "com">>),
     GeneralName("dns", <<"www", "san", "example", "com">>),
     GeneralName("dns", <<"www">>),
     GeneralName("ip", <<"192", "0", "2", "1">>)}

\* The stacks of at most MaxNames general names.
RECURSIVE Stacks(_)
Stacks(n) ==
    IF n = 0 THEN {<<>>}
    ELSE Stacks(n - 1) \cup {Append(st, g) : st \in Stacks(n - 1), g \in GeneralNames}

\* The common name entries of a subject, around the name `name`: no entry,
\* an entry of no line, of one line, of two lines, and two entries.
SubjectNames(name) ==
    {<<>>, <<<<>>>>, <<<<name>>>>, <<<<<<"line">>, name>>>>, <<<<<<"first">>>>, <<name>>>>}

NamedX509(subject_alt_names, subject_name) ==
    [subject_alt_names |-> subject_alt_names, subject_name |-> subject_name]

NamedCertificates ==
    {CertificateFile_new(1, NamedX509(sans, subject)) :
        sans \in {None} \cup {Some(st) : st \in Stacks(MaxNames)},
        subject \in SubjectNames(<<"cn", "example", "com">>)}

OtherCertificate ==
    CertificateFile_new(2, NamedX509(Some(<<GeneralName("dns", <<"other", "example", "org">>)>>),
                                     <<<<<<"other">>>>>>))

NamedRequests ==
    {CertificateRequestFile_new(3, [subject_name |-> subject]) :
        subject \in SubjectNames(<<"request", "example", "com">>)}

NamedChains ==
    {[Chain_new EXCEPT !.request = request, !.certificates = certificates] :
        request \in {None} \cup {Some(r) : r \in NamedRequests},
        certificates \in {<<>>} \cup {<<c>> : c \in NamedCertificates}
                             \cup {<<c, OtherCertificate>> : c \in NamedCertificates}}

InitName ==
    /\ files = <<>>
    /\ chains \in {<<chain>> : chain \in NamedChains}
    /\ phase = "name"
    /\ Idle
    /\ comparison = NoComparison

\* display::default and display::oneline: the name printed for the chain.
GetDisplayName ==
    /\ phase = "name"
    /\ display_name' = Some(get_display_name(chains[1]))
    /\ phase' = "named"
    /\ UNCHANGED <<files, chains, program, comparison, previous>>

NextName == GetDisplayName

SpecName == InitName /\ [][NextName]_vars

(***************************************************************************)
(* Properties.  They are stated on the files and the finished chains, not  *)
(* through the operators above.                                            *)
(***************************************************************************)
Min(S) == CHOOSE x \in S : \A y \in S : x <= y

Range(q) == {q[i] : i \in 1..Len(q)}

\* The paths of the candidate pool: the readable files that parse as a
\* certificate.
PoolPaths == {p \in 1..Len(files) : files[p].readable /\ is_ok(files[p].cert)}

CertAt(p) == unwrap(files[p].cert)

\* The signature of certificate c verifies under the public key of s.
Verifies(c, s) == c.signer = s.key

VerifiersOf(c) == {p \in PoolPaths : Verifies(c, CertAt(p))}

\* The certificate records attached to the chains.
AttachedRecords ==
    UNION {Range(chains[c].certificates) : c \in 1..Len(chains)}

\* A record and every record inside its issuer lineage.
ReachableFrom(record) == {record} \cup Range(signing_certificate_chain_from(record))

Built == phase = "done"

\* C1: leaf L verifies only under intermediate i, i only under root r, and r
\* is self-signed.
LeafIntermediateRoot(L, i, r) ==
    /\ i # r /\ L.path # i /\ L.path # r
    /\ VerifiersOf(L.certificate) = {i}
    /\ VerifiersOf(CertAt(i)) = {r}
    /\ Verifies(CertAt(r), CertAt(r))

\* C1: after build the lineage of such a leaf, as signing_certificate_chain
\* returns it, is [intermediate, root] in that order, and the root record in
\* it is marked self-signed.
C1_LineageIsIntermediateThenRoot ==
    Built =>
        \A L \in AttachedRecords : \A i \in PoolPaths : \A r \in PoolPaths :
            LeafIntermediateRoot(L, i, r) =>
                LET lineage == signing_certificate_chain(L)
                IN  /\ path_of_each(lineage) = <<i, r>>
                    /\ lineage[2].self_signed

\* C2: when two or more certificates of the pool verify the signature of a
\* non-self-signed certificate, the issuer attached to it is the one that
\* comes earliest in the path order.
C2_FirstMatchWins ==
    Built =>
        \A C \in AttachedRecords :
            (/\ ~Verifies(C.certificate, C.certificate)
             /\ Cardinality(VerifiersOf(C.certificate)) >= 2)
            => /\ is_ok(C.signing_certificate)
               /\ unwrap(C.signing_certificate).path = Min(VerifiersOf(C.certificate))

\* C3: resolving the signer lineage terminates for every pool and every
\* "verifies under" relation: the recursion never goes on until the stack is
\* exhausted.
C3_ResolutionTerminates == phase # "overflow"

\* C4: after build, for every record reachable from a chain, the signing
\* certificate is None exactly when the record is marked self-signed or no
\* certificate of the pool verifies its signature.
C4_NoIssuerIffSelfSignedOrUnknown ==
    Built =>
        \A C \in AttachedRecords : \A R \in ReachableFrom(C) :
            is_err(R.signing_certificate)
                <=> (R.self_signed \/ VerifiersOf(R.certificate) = {})

\* C5: private_to_public is Ok exactly when the moduli of the private key
\* and of the public key (of a request or of a certificate) are equal.
C5_OkIffModuliEqual ==
    phase = "compared" =>
        (comparison.result = "Ok" <=> comparison.rsa_private.n = comparison.public.n)

\* C5 witness: keys of equal modulus that differ elsewhere, the public one
\* taken from a certificate, were compared and found to match.
C5_Witness ==
    /\ phase = "compared"
    /\ comparison.holder = "certificate"
    /\ comparison.rsa_private.n = comparison.public.n
    /\ comparison.rsa_private.e # comparison.public.e
    /\ comparison.result = "Ok"

\* C6: the pool holds nothing but the certificate itself that verifies its
\* signature.
SelfSignedAlone(C) ==
    /\ Verifies(C.certificate, C.certificate)
    /\ \A p \in VerifiersOf(C.certificate) : CertAt(p) = C.certificate

\* C6: a self-signed certificate attached to a chain ends marked self-signed
\* and without signing certificate, whatever certificates that do not verify
\* its signature are in the pool and wherever it sits in the path order.
C6_SelfSignedHasNoIssuer ==
    Built =>
        \A C \in AttachedRecords :
            SelfSignedAlone(C) => C.self_signed /\ C.signing_certificate = None

\* C6 witness: a self-signed certificate resolved behind another certificate
\* of the pool.
C6_Witness ==
    /\ Built
    /\ \E C \in AttachedRecords :
          /\ SelfSignedAlone(C)
          /\ \E p \in PoolPaths : p < C.path /\ CertAt(p) # C.certificate
          /\ C.self_signed
          /\ C.signing_certificate = None

\* C7: an attached certificate whose signature no certificate of the pool
\* verifies ends without signing certificate and not marked self-signed.
C7_UnknownIssuer ==
    Built =>
        \A C \in AttachedRecords :
            VerifiersOf(C.certificate) = {}
                => C.signing_certificate = None /\ ~C.self_signed

\* C7 witness: such a certificate resolved against a pool that holds other
\* certificates.
C7_Witness ==
    /\ Built
    /\ \E C \in AttachedRecords :
          /\ VerifiersOf(C.certificate) = {}
          /\ Cardinality(PoolPaths) >= 3
          /\ C.signing_certificate = None
          /\ ~C.self_signed

\* C8: build runs to completion for every file list, whatever the files
\* hold: it never panics.
C8_BuildNeverPanics == phase # "panicked"

\* C9 (as stated): when a path named on the command line cannot be walked,
\* chain construction does not run, the process exits with a non-zero
\* status and an error, and prints no chain.
SomeNamedPathFails == \E a \in 1..Len(args) : args[a].kind = "error"

RECURSIVE ContentOfFiles(_)
ContentOfFiles(entries) ==
    IF entries = <<>> THEN <<>>
    ELSE (IF Head(entries).kind = "file" THEN <<Head(entries).content>> ELSE <<>>)
             \o ContentOfFiles(Tail(entries))

RECURSIVE FilesNamed(_)
FilesNamed(arguments) ==
    IF arguments = <<>> THEN <<>>
    ELSE (IF Head(arguments).kind = "dir"
          THEN ContentOfFiles(Head(arguments).entries)
          ELSE ContentOfFiles(<<Head(arguments)>>))
             \o FilesNamed(Tail(arguments))

MatchingRequests(chain) ==
    {p \in 1..Len(files) :
        /\ files[p].readable
        /\ is_ok(files[p].req)
        /\ unwrap(files[p].req).alg = "rsa"
        /\ unwrap(files[p].req).n = unwrap(chain.key).rsa.n}

RequestsAttached == phase \in {"certificates", "signing", "done"}

\* C10: once the requests are attached, and through the later phases, the
\* request of every chain is the first file in path order that parses as a
\* request of the modulus of the chain's key, and None when there is no such
\* file; a request that matches no key is attached to no chain.
C10_RequestIsFirstMatch ==
    RequestsAttached =>
        /\ \A c \in 1..Len(chains) :
              IF MatchingRequests(chains[c]) = {}
              THEN chains[c].request = None
              ELSE /\ is_ok(chains[c].request)
                   /\ unwrap(chains[c].request).path = Min(MatchingRequests(chains[c]))
        /\ \A p \in 1..Len(files) :
              (\A c \in 1..Len(chains) : p \notin MatchingRequests(chains[c]))
                  => \A c \in 1..Len(chains) :
                         chains[c].request = None \/ unwrap(chains[c].request).path # p

\* C10 witness: a chain with two matching requests keeps the first, next to
\* a request that matches no chain.
C10_Witness ==
    /\ Built
    /\ \E c \in 1..Len(chains) :
          /\ Cardinality(MatchingRequests(chains[c])) >= 2
          /\ unwrap(chains[c].request).path = Min(MatchingRequests(chains[c]))
    /\ \E p \in 1..Len(files) :
          /\ is_ok(files[p].req)
          /\ \A c \in 1..Len(chains) : p \notin MatchingRequests(chains[c])

\* The elements of a set of paths, in path order.
RECURSIVE InPathOrder(_)
InPathOrder(S) == IF S = {} THEN <<>> ELSE <<Min(S)>> \o InPathOrder(S \ {Min(S)})

\* The paths of the files that parse as a certificate whose public key has
\* the modulus of the chain's key.
MatchingCertificates(chain) ==
    {p \in PoolPaths :
        /\ CertAt(p).key.alg = "rsa"
        /\ CertAt(p).key.n = unwrap(chain.key).rsa.n}

CertificatesAttached == phase \in {"signing", "done"}

\* C11: once the certificates are attached, and after the lineages are
\* resolved, the certificates of every chain are the files that parse as a
\* certificate of the modulus of the chain's key: all of them, one record per
\* entry of the path list, in path order, each holding the certificate of its
\* file, and no certificate of another modulus.
C11_CertificatesAreAllMatches ==
    CertificatesAttached =>
        \A c \in 1..Len(chains) :
            /\ path_of_each(chains[c].certificates)
                   = InPathOrder(MatchingCertificates(chains[c]))
            /\ \A i \in 1..Len(chains[c].certificates) :
                   chains[c].certificates[i].certificate
                       = CertAt(chains[c].certificates[i].path)

\* C11 witness: a chain with two certificates of its modulus attached, and
\* a certificate of another modulus between them in the path list.
C11_Witness ==
    /\ Built
    /\ \E c \in 1..Len(chains) :
          /\ Len(chains[c].certificates) >= 2
          /\ \E p \in PoolPaths \ MatchingCertificates(chains[c]) :
                /\ chains[c].certificates[1].path < p
                /\ p < chains[c].certificates[2].path

\* The paths of the files that parse as a private key.
KeyPaths == {p \in 1..Len(files) : files[p].readable /\ is_ok(files[p].key)}

ChainsInitialized == phase \in {"requests", "certificates", "signing", "done", "overflow"}

\* C12: from the end of initialize on, through every later phase, there is
\* exactly one chain per entry of the path list that parses as a private key,
\* in path order and without deduplication, and the key of each chain is set
\* to that entry's path and key: no phase changes or clears a key, adds a
\* chain or removes one.
C12_OneChainPerKeyFile ==
    ChainsInitialized =>
        /\ Len(chains) = Cardinality(KeyPaths)
        /\ \A c \in 1..Len(chains) :
               chains[c].key
                   = Some([path |-> InPathOrder(KeyPaths)[c],
                           rsa |-> unwrap(files[InPathOrder(KeyPaths)[c]].key)])

\* C12 witness: the same key listed twice gave two chains, which went
\* through the later phases and got a request and a certificate each.
C12_Witness ==
    /\ Built
    /\ \E c \in 1..Len(chains) : \E d \in 1..Len(chains) :
          /\ c < d
          /\ unwrap(chains[c].key).rsa = unwrap(chains[d].key).rsa
          /\ is_ok(chains[c].request) /\ is_ok(chains[d].request)
          /\ chains[c].certificates # <<>> /\ chains[d].certificates # <<>>

\* A certificate record with every path in it, its lineage included, taken
\* through the map `names`.
RECURSIVE RenamedCertificate(_, _)
RenamedCertificate(record, names) ==
    [record EXCEPT
        !.path = names[@],
        !.signing_certificate =
            IF @ = None THEN None ELSE Some(RenamedCertificate(unwrap(@), names))]

RenamedChain(chain, names) ==
    [chain EXCEPT
        !.key = Some([unwrap(@) EXCEPT !.path = names[@]]),
        !.request = IF @ = None THEN None ELSE Some([unwrap(@) EXCEPT !.path = names[@]]),
        !.certificates = [i \in 1..Len(@) |-> RenamedCertificate(@[i], names)]]

\* The chains of this call, every path given the name it had in the path
\* list of the earlier call.
ChainsUnderEarlierNames ==
    [c \in 1..Len(chains) |-> RenamedChain(chains[c], previous.kept)]

\* C13: build on the path list without the files that cannot be read or
\* that fail the three parses ends as build on the whole list did, and when
\* it returns, it returns the same chains: the same keys, requests,
\* certificates, lineages and self-signed flags, under the same paths.
C13_SkippedFilesChangeNothing ==
    (previous.how = "without skipped" /\ Ended) =>
        /\ phase = previous.phase
        /\ phase = "done" => ChainsUnderEarlierNames = previous.chains

\* C13 witness: both calls returned, the first on a list with an unreadable
\* file and a file that holds nothing in front of a key and its certificate.
C13_Witness ==
    /\ previous.how = "without skipped"
    /\ phase = "done"
    /\ \E p \in 1..Len(previous.files) : ~previous.files[p].readable
    /\ \E p \in 1..Len(previous.files) : previous.files[p] = Garbage
    /\ \E c \in 1..Len(chains) :
          /\ chains[c].certificates # <<>>
          /\ unwrap(chains[c].key).path # unwrap(previous.chains[c].key).path

HasCommonName(subject) == subject # <<>> /\ subject[Len(subject)] # <<>>

CommonNameOf(subject) == subject[Len(subject)][Len(subject[Len(subject)])]

\* The places of the DNS names of a stack that do not start with "www.".
NonWwwDnsNames(st) ==
    {i \in 1..Len(st) :
        /\ st[i].kind = "dns"
        /\ ~(Len(st[i].value) >= 2 /\ st[i].value[1] = "www")}

\* The name the first certificate gives, as a set: empty when it gives none.
NameFromFirstCertificate(chain) ==
    IF chain.certificates = <<>> THEN {}
    ELSE LET x509 == chain.certificates[1].certificate
             st == IF x509.subject_alt_names = None THEN <<>>
                   ELSE unwrap(x509.subject_alt_names)
         IN  IF NonWwwDnsNames(st) # {} THEN {st[Min(NonWwwDnsNames(st))].value}
             ELSE IF st # <<>> /\ st[1].kind = "dns" THEN {st[1].value}
             ELSE IF HasCommonName(x509.subject_name)
             THEN {CommonNameOf(x509.subject_name)}
             ELSE {}

NameFromRequest(chain) ==
    IF chain.request = None THEN {}
    ELSE LET subject == unwrap(chain.request).request.subject_name
         IN  IF HasCommonName(subject) THEN {CommonNameOf(subject)} ELSE {}

\* C15: the display name of a chain is the first available of: the first
\* DNS subject alternative name of the chain's first certificate that does
\* not start with "www."; the first subject alternative entry of that
\* certificate when it is a DNS name; the common name of that certificate;
\* the common name of the request; and else "(unknown)".  A name the first
\* certificate gives is never passed over for one of the request.
C15_DisplayNamePriority ==
    phase = "named" =>
        LET chain == chains[1]
        IN  /\ display_name =
                   IF NameFromFirstCertificate(chain) # {}
                   THEN Some(CHOOSE n \in NameFromFirstCertificate(chain) : TRUE)
                   ELSE IF NameFromRequest(chain) # {}
                   THEN Some(CHOOSE n \in NameFromRequest(chain) : TRUE)
                   ELSE Some(<<"(unknown)">>)
            /\ NameFromFirstCertificate(chain) # {}
                   => unwrap(display_name) \notin NameFromRequest(chain)

\* C15 witness: the first certificate has only a "www." DNS name, in front
\* of an entry of another kind, and has a common name, the request has a
\* common name too, and the name returned is the "www." name.
C15_Witness ==
    /\ phase = "named"
    /\ LET chain == chains[1]
       IN  /\ chain.certificates # <<>>
           /\ chain.certificates[1].certificate.subject_alt_names
                  = Some(<<GeneralName("dns", <<"www", "san", "example", "com">>),
                           GeneralName("ip", <<"192", "0", "2", "1">>)>>)
           /\ HasCommonName(chain.certificates[1].certificate.subject_name)
           /\ NameFromRequest(chain) # {}
    /\ display_name = Some(<<"www", "san", "example", "com">>)

\* The places below (and at) an entry of the file system: a place is the
\* sequence of the indices that lead to it.
RECURSIVE PlacesUnder(_)
PlacesUnder(entry) ==
    {<<>>} \cup UNION {{<<i>> \o q : q \in PlacesUnder(entry.entries[i])} :
                          i \in 1..Len(entry.entries)}

RECURSIVE EntryAt(_, _)
EntryAt(entry, place) ==
    IF place = <<>> THEN entry ELSE EntryAt(entry.entries[Head(place)], Tail(place))

\* Place p comes before place q in the walk: at the first index where they
\* differ, p has the smaller one.
ComesBefore(p, q) ==
    \E i \in 1..Min({Len(p), Len(q)}) :
        /\ SubSeq(p, 1, i - 1) = SubSeq(q, 1, i - 1)
        /\ p[i] < q[i]

\* The places of the files the claim lets an argument contribute: regular
\* files; neither hidden nor below (or at) a hidden entry, unless hidden
\* files are included; the argument itself or a direct child of it, unless
\* the walk is recursive.
Contributed(arg) ==
    {p \in PlacesUnder(arg) :
        /\ EntryAt(arg, p).kind = "file"
        /\ \/ options.include_hidden_files
           \/ \A k \in 0..Len(p) : ~EntryAt(arg, SubSeq(p, 1, k)).hidden
        /\ options.recursive \/ Len(p) <= 1}

RECURSIVE InWalkOrder(_, _)
InWalkOrder(arg, places) ==
    IF places = {} THEN <<>>
    ELSE LET p == CHOOSE q \in places : \A o \in places \ {q} : ComesBefore(q, o)
         IN  <<EntryAt(arg, p).content>> \o InWalkOrder(arg, places \ {p})

RECURSIVE ContributedByEach(_)
ContributedByEach(arguments) ==
    IF arguments = <<>> THEN <<>>
    ELSE InWalkOrder(Head(arguments), Contributed(Head(arguments)))
             \o ContributedByEach(Tail(arguments))

\* C16: the list expand returns holds regular files only, grouped in the
\* order of the arguments (no argument standing for "."); a hidden entry and
\* everything below a hidden directory is left out unless
\* include_hidden_files is set; and a file below a subdirectory of an
\* argument is in the list only when recursive is set, so that without it
\* only the argument itself and its direct children count.
C16_ExpandListsVisibleFiles ==
    phase = "input" =>
        files = ContributedByEach(IF args = <<>> THEN <<cwd>> ELSE args)

\* C16 witness: a recursive walk without hidden files of a tree and of a
\* hidden file named on the command line listed the regular files of the
\* tree that are not hidden, those of its subdirectories included, and
\* nothing for the hidden file.
C16_Witness ==
    /\ phase = "input"
    /\ options.recursive /\ ~options.include_hidden_files
    /\ args = <<Tree, DotFile>>
    /\ files = <<RequestFile(RsaPKey(1)), CertFile(RsaPKey(1), RsaPKey(1)),
                  CertFile(RsaPKey(2), RsaPKey(1))>>

UsedAsKey(p) == \E c \in 1..Len(chains) : unwrap(chains[c].key).path = p

UsedAsRequest(p) ==
    \E c \in 1..Len(chains) :
        is_ok(chains[c].request) /\ unwrap(chains[c].request).path = p

UsedAsCertificate(p) ==
    \E C \in AttachedRecords : \E R \in ReachableFrom(C) : R.path = p

\* C17: in the chains build returns, no path is used as more than one of a
\* private key, a request and a certificate, whatever the three parses make
\* of the file's content.
C17_OneArtifactTypePerFile ==
    Built =>
        \A p \in 1..Len(files) :
            /\ ~(UsedAsKey(p) /\ UsedAsRequest(p))
            /\ ~(UsedAsKey(p) /\ UsedAsCertificate(p))
            /\ ~(UsedAsRequest(p) /\ UsedAsCertificate(p))

\* C18: in both display modes, the certificate paths printed for a chain
\* are the paths of all the certificates attached to it, in the order of
\* chain.certificates, whatever certificates before them are self-signed.
C18_EveryCertificatePrinted ==
    (phase = "exited" /\ exit_code = Some(0)) =>
        /\ Len(stdout.chains) = Len(chains)
        /\ \A c \in 1..Len(chains) :
               path_of_each(stdout.chains[c].certificates)
                   = path_of_each(chains[c].certificates)

\* The number of regular files an argument names: itself, or its direct
\* children.
NumberOfFiles(arg) ==
    IF arg.kind = "file" THEN 1
    ELSE Cardinality({i \in 1..Len(arg.entries) : arg.entries[i].kind = "file"})

RECURSIVE NumberNamed(_)
NumberNamed(arguments) ==
    IF arguments = <<>> THEN 0
    ELSE NumberOfFiles(Head(arguments)) + NumberNamed(Tail(arguments))

Processed == phase # "start" /\ ~options.print_help

\* C19: with the file limit not disabled, the path list handed to build
\* never holds more than 10,000 paths: when the arguments name more, the
\* process exits with status 5 with no path handed to build, no chain built
\* and nothing printed.  In every other case, the limit disabled or not
\* exceeded, there is no such exit and the list holds every file named.
C19_FileLimit ==
    /\ ~options.disable_file_limit => Len(files) <= 10000
    /\ Processed =>
           LET named == NumberNamed(IF args = <<>> THEN <<cwd>> ELSE args)
           IN  IF named > 10000 /\ ~options.disable_file_limit
               THEN /\ phase = "exited" /\ exit_code = Some(5)
                    /\ files = <<>> /\ chains = <<>> /\ stdout = NothingPrinted
               ELSE /\ phase = "input" /\ exit_code = None
                    /\ Len(files) = named

\* C19 witness: 10,001 files named by two arguments and the limit in force:
\* the process has exited with status 5.
C19_Witness ==
    /\ ~options.disable_file_limit
    /\ Len(args) = 2
    /\ NumberNamed(args) = 10001
    /\ exit_code = Some(5)

=============================================================================
